---- MODULE Spec2Model ----
(***************************************************************************)
(* Model of the label library vendored in cilium/client-example            *)
(* (package labels: Label, Labels, the textual label parser, the           *)
(* canonical SortedList serialisation and Label.UnmarshalJSON), and of the *)
(* example client's main (client-example.go).                              *)
(*                                                                         *)
(* Go strings are modelled as sequences of byte values, so that            *)
(* strings.IndexByte, strings.HasPrefix, strings.Split, slicing and the    *)
(* byte-wise string order used by sort.Strings are computed, not assumed.  *)
(***************************************************************************)
EXTENDS Integers, Sequences, FiniteSets, TLC

VARIABLES
    to, from,       \* two Labels maps (map key -> Label)
    nilmap,         \* which of the two maps are nil Go maps
    panicked,       \* a write to a nil map panicked
    op,             \* the last operation applied
    arg,            \* the operands the last operation was applied to
    ret,            \* what the last operation returned
    sorted,         \* the SortedList output last taken of each map, if still current
    str,            \* the text handed to the parsers
    orig,           \* the triple str was generated from, if it was
    lbl,            \* result of ParseLabel(str)
    sel,            \* result of ParseSelectLabel(str)
    done,           \* the parser operations already applied to str
    data,           \* the JSON document handed to UnmarshalJSON
    recv,           \* the *Label receiver of UnmarshalJSON
    err,            \* the error returned by UnmarshalJSON
    pc,             \* the call main makes next
    calls,          \* the client calls main has made, with their outcome
    stdout,         \* what main has printed
    logged,         \* what main has logged
    exitCode,       \* the exit code of the process, once pc = "exited"
    cilium,         \* statusResponse.Cilium of the health response
    endpoints       \* the endpoints main has still to print

vars == <<to, from, nilmap, panicked, op, arg, ret, sorted,
          str, orig, lbl, sel, done, data, recv, err,
          pc, calls, stdout, logged, exitCode, cilium, endpoints>>

----------------------------------------------------------------------------
(* Bounds of the model.                                                    *)

\* longest parser input, counted in tokens of Tokens
MaxTokens == 3

\* longest string list handed to NewLabelsFromModel
MaxBase == 1

\* most entries a map is merged up to
MaxEntries == 2

\* longest map key AppendPrefixInKey is allowed to build
MaxKeyLen == 2

\* most entries of the maps SortedList and Equals are applied to
MaxCanon == 2

----------------------------------------------------------------------------
(* Bytes and string constants of the program.                              *)

ChDollar == 36
ChDot == 46
ChColon == 58
ChSemi == 59
ChEq == 61

\* "reserved"
LabelSourceReserved == <<114, 101, 115, 101, 114, 118, 101, 100>>
\* "unspec"
LabelSourceUnspec == <<117, 110, 115, 112, 101, 99>>
\* "any"
LabelSourceAny == <<97, 110, 121>>
\* "k8s"
LabelSourceK8s == <<107, 56, 115>>
\* "reserved."
LabelSourceReservedKeyPrefix == LabelSourceReserved \o <<ChDot>>

----------------------------------------------------------------------------
(* Go string primitives.                                                   *)

Range(s) == {s[i] : i \in 1..Len(s)}

\* strings.IndexByte: 0-based index of the first c in s, -1 if there is none
IndexByte(s, c) ==
    IF \E i \in 1..Len(s) : s[i] = c
    THEN (CHOOSE i \in 1..Len(s) : s[i] = c /\ \A j \in 1..(i-1) : s[j] # c) - 1
    ELSE -1

\* s[:i] and s[i:] with Go's 0-based index i
SliceTo(s, i) == SubSeq(s, 1, i)
SliceFrom(s, i) == SubSeq(s, i + 1, Len(s))

\* strings.HasPrefix
HasPrefix(s, p) == Len(s) >= Len(p) /\ SubSeq(s, 1, Len(p)) = p

\* strings.TrimPrefix
TrimPrefix(s, p) == IF HasPrefix(s, p) THEN SliceFrom(s, Len(p)) ELSE s

\* Go's s < t on strings: byte-wise lexicographic order
RECURSIVE StrLess(_, _)
StrLess(s, t) ==
    IF t = <<>> THEN FALSE
    ELSE IF s = <<>> THEN TRUE
    ELSE IF s[1] # t[1] THEN s[1] < t[1]
    ELSE StrLess(Tail(s), Tail(t))

\* strings.Split(s, sep) for a one-byte separator: one more piece than there
\* are separators; Split("") is the one-element list holding ""
\* strings.SplitN(s, sep, 2): cuts at the first separator only
SplitAtFirst(s, sep) ==
    LET i == IndexByte(s, sep)
    IN  IF i < 0 THEN <<s>>
        ELSE <<SliceTo(s, i), SliceFrom(s, i + 1)>>

RECURSIVE Split(_, _)
Split(s, sep) ==
    LET i == IndexByte(s, sep)
    IN  IF i < 0 THEN <<s>>
        ELSE <<SliceTo(s, i)>> \o Split(SliceFrom(s, i + 1), sep)

----------------------------------------------------------------------------
(* Label and the textual parsers.                                          *)

Label(key, value, source) == [Key |-> key, Value |-> value, Source |-> source]

\* the zero value of the Go struct
ZeroLabel == Label(<<>>, <<>>, <<>>)

parseSource(s, delim) ==
    IF s = <<>> THEN [src |-> <<>>, next |-> <<>>]
    ELSE IF s[1] = ChDollar
    THEN [src |-> LabelSourceReserved, next |-> SliceFrom(s, 1)]
    ELSE LET i == IndexByte(s, delim)
         IN  IF i < 0
             THEN IF delim # ChDot /\ HasPrefix(s, LabelSourceReservedKeyPrefix)
                  THEN [src |-> LabelSourceReserved,
                        next |-> TrimPrefix(s, LabelSourceReservedKeyPrefix)]
                  ELSE [src |-> <<>>, next |-> s]
             ELSE [src |-> SliceTo(s, i), next |-> SliceFrom(s, i + 1)]

parseLabelDropEq(s, delim) ==
    LET p == parseSource(s, delim)
        source == IF p.src # <<>> THEN p.src ELSE LabelSourceUnspec
        i == IndexByte(p.next, ChEq)
    IN  IF i < 0 THEN Label(p.next, <<>>, source)
        ELSE Label(SliceTo(p.next, i), SliceFrom(p.next, i), source)

parseLabel(s, delim) ==
    LET p == parseSource(s, delim)
        source == IF p.src # <<>> THEN p.src ELSE LabelSourceUnspec
        i == IndexByte(p.next, ChEq)
    IN  IF i < 0 THEN Label(p.next, <<>>, source)
        ELSE IF i = 0 /\ p.src = LabelSourceReserved
             THEN Label(SliceFrom(p.next, i + 1), <<>>, source)
             ELSE Label(SliceTo(p.next, i), SliceFrom(p.next, i + 1), source)

ParseLabel(s) == parseLabel(s, ChColon)

parseSelectLabelKeepUnspec(s, delim) == parseLabel(s, delim)

parseSelectLabel(s, delim) ==
    LET l == parseLabel(s, delim)
    IN  IF l.Source = LabelSourceUnspec
        THEN [l EXCEPT !.Source = LabelSourceAny]
        ELSE l

ParseSelectLabel(s) == parseSelectLabel(s, ChColon)

\* fmt.Sprintf("%s:%s=%s", source, key, value)
generateLabelString(source, key, value) ==
    source \o <<ChColon>> \o key \o <<ChEq>> \o value

\* Label.IsAnySource
IsAnySource(l) == l.Source = LabelSourceAny

\* Label.Equals
LabelEquals(l, b) ==
    IF ~IsAnySource(l) /\ l.Source # b.Source
    THEN FALSE
    ELSE l.Key = b.Key /\ l.Value = b.Value

\* Label.IsValid
IsValid(l) == l.Key # <<>>

----------------------------------------------------------------------------
(* Inputs of the parsers.                                                  *)

\* "a", "1", "host", "role", "backend"
StrA == <<97>>
Str1 == <<49>>
StrHost == <<104, 111, 115, 116>>
StrRole == <<114, 111, 108, 101>>
StrBackend == <<98, 97, 99, 107, 101, 110, 100>>

\* the pieces parser inputs are assembled from: the four bytes the parsers
\* look for, the record separator, the sources the parsers treat specially
\* and two plain words
Tokens ==
    { <<ChDollar>>, <<ChColon>>, <<ChEq>>, <<ChDot>>, <<ChSemi>>,
      LabelSourceReserved, LabelSourceUnspec, LabelSourceAny, StrA, Str1 }

RECURSIVE TokStrs(_)
TokStrs(n) ==
    IF n = 0 THEN {<<>>}
    ELSE LET shorter == TokStrs(n - 1)
         IN  shorter \cup {s \o t : s \in shorter, t \in Tokens}

\* "$host", "k8s:role=backend", "role=backend"
ExampleStrs ==
    { <<ChDollar>> \o StrHost,
      LabelSourceK8s \o <<ChColon>> \o StrRole \o <<ChEq>> \o StrBackend,
      StrRole \o <<ChEq>> \o StrBackend }

StrInputs == TokStrs(MaxTokens) \cup ExampleStrs

\* the fields of the triples handed to generateLabelString
FieldStrs == Tokens \cup {<<>>, LabelSourceK8s, StrRole}

NoOrigin == [gen |-> FALSE, l |-> ZeroLabel]

\* no current SortedList output
NoSlot == [ok |-> FALSE, bytes |-> <<>>]

----------------------------------------------------------------------------
(* Labels: map[string]Label, and its operations.                           *)

\* Labels{}
EmptyLabels == <<>>

\* l[k] = v
Put(l, k, v) == [x \in (DOMAIN l) \cup {k} |-> IF x = k THEN v ELSE l[x]]

\* the orders in which `for k := range m` may visit the keys of a map
RangeOrders(m) ==
    LET n == Cardinality(DOMAIN m)
    IN  {o \in [1..n -> DOMAIN m] : Range(o) = DOMAIN m}

NewLabel(key, value, source) ==
    LET p == parseSource(key, ChColon)
        source1 == IF source = <<>>
                   THEN IF p.src = <<>> THEN LabelSourceUnspec ELSE p.src
                   ELSE source
    IN  IF p.src = LabelSourceReserved /\ p.next = <<>>
        THEN Label(value, <<>>, source1)
        ELSE Label(p.next, value, source1)

\* "host", "health"
IDNameHost == StrHost
IDNameHealth == <<104, 101, 97, 108, 116, 104>>

LabelHealth == Put(EmptyLabels, IDNameHealth, NewLabel(IDNameHealth, <<>>, LabelSourceReserved))
LabelHost == Put(EmptyLabels, IDNameHost, NewLabel(IDNameHost, <<>>, LabelSourceReserved))

AppendPrefixInKeyMapKeyOnly(l, prefix) ==
    [nk \in {prefix \o k : k \in DOMAIN l} |->
        l[CHOOSE k \in DOMAIN l : prefix \o k = nk]]

AppendPrefixInKey(l, prefix) ==
    [nk \in {prefix \o k : k \in DOMAIN l} |->
        LET k == CHOOSE k \in DOMAIN l : prefix \o k = nk
        IN  Label(prefix \o l[k].Key, l[k].Value, l[k].Source)]

LabelsEqualsSameKeys(l, other) ==
    DOMAIN l = DOMAIN other

\* Labels.Equals
LabelsEquals(l, other) ==
    IF Cardinality(DOMAIN l) # Cardinality(DOMAIN other) THEN FALSE
    ELSE \A k \in DOMAIN l :
            /\ k \in DOMAIN other
            /\ l[k].Source = other[k].Source
            /\ l[k].Key = other[k].Key
            /\ l[k].Value = other[k].Value

GetFromSource(l, source) ==
    [k \in {x \in DOMAIN l : l[x].Source = source} |-> l[k]]

\* Labels.FindReserved: the reserved labels, or nil when there are none
FindReserved(l) ==
    LET lbls == [k \in {x \in DOMAIN l : l[x].Source = LabelSourceReserved} |-> l[k]]
    IN  [isNil |-> DOMAIN lbls = {}, m |-> lbls]

\* Map2Labels, visiting the keys of m in the given order
RECURSIVE Map2LabelsLoop(_, _, _, _)
Map2LabelsLoop(o, m, source, order) ==
    IF order = <<>> THEN o
    ELSE LET l == NewLabel(Head(order), m[Head(order)], source)
         IN  Map2LabelsLoop(Put(o, l.Key, l), m, source, Tail(order))

Map2Labels(m, source, order) == Map2LabelsLoop(EmptyLabels, m, source, order)

RECURSIVE NewLabelsFromModelLoop(_, _)
NewLabelsFromModelLoop(lbls, base) ==
    IF base = <<>> THEN lbls
    ELSE LET l == ParseLabel(Head(base))
         IN  NewLabelsFromModelLoop(IF l.Key # <<>> THEN Put(lbls, l.Key, l) ELSE lbls,
                                    Tail(base))

NewLabelsFromModel(base) == NewLabelsFromModelLoop(EmptyLabels, base)

NewLabelsFromSortedList(list) == NewLabelsFromModel(Split(list, ChSemi))

RECURSIVE MergeLabelsKeepExisting(_, _, _)
MergeLabelsKeepExisting(l, from_, order) ==
    IF order = <<>> THEN l
    ELSE MergeLabelsKeepExisting(
             IF Head(order) \in DOMAIN l THEN l ELSE Put(l, Head(order), from_[Head(order)]),
             from_, Tail(order))

\* Labels.MergeLabels, visiting the keys of from_ in the given order
RECURSIVE MergeLabels(_, _, _)
MergeLabels(l, from_, order) ==
    IF order = <<>> THEN l
    ELSE MergeLabels(Put(l, Head(order), from_[Head(order)]), from_, Tail(order))

FormatForKVStoreNoSemicolon(l) ==
    l.Source \o <<ChColon>> \o l.Key \o <<ChEq>> \o l.Value

\* fmt.Sprintf(`%s:%s=%s;`, l.Source, l.Key, l.Value)
FormatForKVStore(l) ==
    l.Source \o <<ChColon>> \o l.Key \o <<ChEq>> \o l.Value \o <<ChSemi>>

\* sort.Strings, as an insertion sort under Go's string order
RECURSIVE InsertSorted(_, _)
InsertSorted(keys, k) ==
    IF keys = <<>> THEN <<k>>
    ELSE IF StrLess(k, Head(keys)) THEN <<k>> \o keys
    ELSE <<Head(keys)>> \o InsertSorted(Tail(keys), k)

RECURSIVE InsertSortedDescending(_, _)
InsertSortedDescending(keys, k) ==
    IF keys = <<>> THEN <<k>>
    ELSE IF StrLess(Head(keys), k) THEN <<k>> \o keys
    ELSE <<Head(keys)>> \o InsertSortedDescending(Tail(keys), k)

RECURSIVE SortStringsDescending(_)
SortStringsDescending(keys) ==
    IF keys = <<>> THEN <<>>
    ELSE InsertSortedDescending(SortStringsDescending(Tail(keys)), Head(keys))

RECURSIVE SortStrings(_)
SortStrings(keys) ==
    IF keys = <<>> THEN <<>>
    ELSE InsertSorted(SortStrings(Tail(keys)), Head(keys))

RECURSIVE ConcatRecords(_, _)
ConcatRecords(l, keys) ==
    IF keys = <<>> THEN <<>>
    ELSE FormatForKVStore(l[Head(keys)]) \o ConcatRecords(l, Tail(keys))

\* Labels.SortedList, the keys having been collected in the given order
SortedList(l, order) == ConcatRecords(l, SortStrings(order))

----------------------------------------------------------------------------
(* The parser machine: a text, and the parsers applied to it.              *)

IdleLabels ==
    /\ to = <<>> /\ from = <<>> /\ nilmap = {} /\ panicked = FALSE
    /\ op = "init" /\ arg = <<>>
    /\ sorted = [r \in {"to", "from"} |-> NoSlot]

IdleParse ==
    /\ str = <<>> /\ orig = NoOrigin /\ lbl = ZeroLabel /\ sel = ZeroLabel
    /\ done = {}

IdleJSON ==
    /\ data = <<>> /\ recv = <<>> /\ err = ""

\* statusResponse.Cilium == nil
NoCilium == [present |-> FALSE, state |-> ""]

IdleMain ==
    /\ pc = "idle" /\ calls = <<>> /\ stdout = <<>> /\ logged = <<>>
    /\ exitCode = 0 /\ cilium = NoCilium /\ endpoints = <<>>

labelVars == <<to, from, nilmap, panicked, op, arg, sorted>>
parseVars == <<str, orig, lbl, sel, done>>
jsonVars == <<data, recv, err>>
mainVars == <<pc, calls, stdout, logged, exitCode, cilium, endpoints>>

InitParse ==
    /\ str \in StrInputs
    /\ orig = NoOrigin /\ lbl = ZeroLabel /\ sel = ZeroLabel /\ done = {}
    /\ ret = <<>>
    /\ IdleLabels /\ IdleJSON /\ IdleMain

\* str := generateLabelString(source, key, value)
GenerateLabelStringStep ==
    /\ done = {} /\ ~orig.gen /\ str = <<>>
    /\ \E source \in FieldStrs, key \in FieldStrs, value \in FieldStrs :
          /\ str' = generateLabelString(source, key, value)
          /\ orig' = [gen |-> TRUE, l |-> Label(key, value, source)]
    /\ UNCHANGED <<lbl, sel, done, ret>>
    /\ UNCHANGED labelVars /\ UNCHANGED jsonVars /\ UNCHANGED mainVars

\* lbl := ParseLabel(str)
ParseLabelStep ==
    /\ "ParseLabel" \notin done
    /\ lbl' = ParseLabel(str)
    /\ done' = done \cup {"ParseLabel"}
    /\ UNCHANGED <<str, orig, sel, ret>>
    /\ UNCHANGED labelVars /\ UNCHANGED jsonVars /\ UNCHANGED mainVars

\* sel := ParseSelectLabel(str)
ParseSelectLabelStep ==
    /\ "ParseSelectLabel" \notin done
    /\ sel' = ParseSelectLabel(str)
    /\ done' = done \cup {"ParseSelectLabel"}
    /\ UNCHANGED <<str, orig, lbl, ret>>
    /\ UNCHANGED labelVars /\ UNCHANGED jsonVars /\ UNCHANGED mainVars

\* ret := l.Equals(b), on the labels the two parsers returned
LabelEqualsStep ==
    /\ {"ParseLabel", "ParseSelectLabel"} \subseteq done
    /\ "Equals" \notin done
    /\ \E l \in {lbl, sel}, b \in {lbl, sel} :
          ret' = [l |-> l, b |-> b, equal |-> LabelEquals(l, b)]
    /\ done' = done \cup {"Equals"}
    /\ UNCHANGED <<str, orig, lbl, sel>>
    /\ UNCHANGED labelVars /\ UNCHANGED jsonVars /\ UNCHANGED mainVars

NextParse ==
    \/ GenerateLabelStringStep
    \/ ParseLabelStep
    \/ ParseSelectLabelStep
    \/ LabelEqualsStep

SpecParse == InitParse /\ [][NextParse]_vars

----------------------------------------------------------------------------
(* The label-set machine: two Labels maps and the operations that build    *)
(* and change them.                                                        *)

Regs == {"to", "from"}

Reg(r) == IF r = "to" THEN to ELSE from

StrB == <<98>>

\* the texts handed to NewLabelsFromModel: "", "k8s:a=1", "$host"
ModelStrs ==
    { <<>>,
      LabelSourceK8s \o <<ChColon>> \o StrA \o <<ChEq>> \o Str1,
      <<ChDollar>> \o StrHost }

RECURSIVE SeqsUpTo(_, _)
SeqsUpTo(S, n) ==
    IF n = 0 THEN {<<>>}
    ELSE LET shorter == SeqsUpTo(S, n - 1)
         IN  shorter \cup {Append(q, x) : q \in shorter, x \in S}

BaseInputs == SeqsUpTo(ModelStrs, MaxBase)

\* the keys and values of the map[string]string handed to Map2Labels:
\* "", "k8s:b" and "1"
MapKeys == { <<>>, LabelSourceK8s \o <<ChColon>> \o StrB }
MapValues == { Str1 }
MapInputs == UNION { [D -> MapValues] : D \in SUBSET MapKeys }

\* the source arguments of Map2Labels: "" and "k8s"
SourceArgs == { <<>>, LabelSourceK8s }

\* the prefix handed to AppendPrefixInKey: "a"
PrefixArgs == { StrA }

\* the sources handed to GetFromSource
FilterArgs == { LabelSourceK8s }

\* the text handed to NewLabelsFromSortedList: "k8s:a=1;unspec:b=;"
ListInputs ==
    { LabelSourceK8s \o <<ChColon>> \o StrA \o <<ChEq>> \o Str1 \o <<ChSemi>>
        \o LabelSourceUnspec \o <<ChColon>> \o StrB \o <<ChEq, ChSemi>> }

IdleCanon ==
    /\ ret = <<>>
    /\ sorted = [r \in Regs |-> NoSlot]

Init ==
    /\ to = LabelHost
    /\ from = LabelHealth
    /\ nilmap = {}
    /\ panicked = FALSE
    /\ op = "init" /\ arg = <<>>
    /\ IdleCanon /\ IdleParse /\ IdleJSON /\ IdleMain

\* r = v: the variable r now holds the map v
Store(r, v, isNil) ==
    /\ to' = IF r = "to" THEN v ELSE to
    /\ from' = IF r = "from" THEN v ELSE from
    /\ nilmap' = IF isNil THEN nilmap \cup {r} ELSE nilmap \ {r}

KeepOthers ==
    /\ UNCHANGED <<ret, sorted, str, orig, lbl, sel, done, data, recv, err>>
    /\ UNCHANGED mainVars

Map2LabelsStep ==
    /\ ~panicked
    /\ \E r \in Regs, m \in MapInputs, source \in SourceArgs :
          \E order \in RangeOrders(m) :
             Store(r, Map2Labels(m, source, order), FALSE)
    /\ op' = "Map2Labels" /\ arg' = <<>>
    /\ UNCHANGED panicked /\ KeepOthers

NewLabelsFromModelStep ==
    /\ ~panicked
    /\ \E r \in Regs, base \in BaseInputs :
          Store(r, NewLabelsFromModel(base), FALSE)
    /\ op' = "NewLabelsFromModel" /\ arg' = <<>>
    /\ UNCHANGED panicked /\ KeepOthers

NewLabelsFromSortedListStep ==
    /\ ~panicked
    /\ \E r \in Regs, list \in ListInputs :
          Store(r, NewLabelsFromSortedList(list), FALSE)
    /\ op' = "NewLabelsFromSortedList" /\ arg' = <<>>
    /\ UNCHANGED panicked /\ KeepOthers

AppendPrefixInKeyStep ==
    /\ ~panicked
    /\ \E r \in Regs, x \in Regs, prefix \in PrefixArgs :
          /\ \A k \in DOMAIN Reg(x) : Len(prefix \o k) <= MaxKeyLen
          /\ Store(r, AppendPrefixInKey(Reg(x), prefix), FALSE)
    /\ op' = "AppendPrefixInKey" /\ arg' = <<>>
    /\ UNCHANGED panicked /\ KeepOthers

GetFromSourceStep ==
    /\ ~panicked
    /\ \E r \in Regs, x \in Regs, source \in FilterArgs :
          Store(r, GetFromSource(Reg(x), source), FALSE)
    /\ op' = "GetFromSource" /\ arg' = <<>>
    /\ UNCHANGED panicked /\ KeepOthers

FindReservedStep ==
    /\ ~panicked
    /\ \E r \in Regs, x \in Regs :
          LET res == FindReserved(Reg(x))
          IN  Store(r, res.m, res.isNil)
    /\ op' = "FindReserved" /\ arg' = <<>>
    /\ UNCHANGED panicked /\ KeepOthers

\* Reg(r).MergeLabels(Reg(f)); an assignment to an entry of a nil map panics
MergeLabelsStep ==
    /\ ~panicked
    /\ \E r \in Regs, f \in Regs :
          /\ arg' = [recv |-> r, from |-> f, l |-> Reg(r), other |-> Reg(f)]
          /\ IF r \in nilmap /\ DOMAIN Reg(f) # {}
             THEN /\ panicked' = TRUE
                  /\ UNCHANGED <<to, from, nilmap>>
             ELSE /\ Cardinality(DOMAIN Reg(r) \cup DOMAIN Reg(f)) <= MaxEntries
                  /\ \E order \in RangeOrders(Reg(f)) :
                        Store(r, MergeLabels(Reg(r), Reg(f), order), r \in nilmap)
                  /\ UNCHANGED panicked
    /\ op' = "MergeLabels"
    /\ KeepOthers

Next ==
    \/ Map2LabelsStep
    \/ NewLabelsFromModelStep
    \/ NewLabelsFromSortedListStep
    \/ AppendPrefixInKeyStep
    \/ GetFromSourceStep
    \/ FindReservedStep
    \/ MergeLabelsStep

Spec == Init /\ [][Next]_vars

----------------------------------------------------------------------------
(* The NewLabel machine: a key text, and NewLabel applied to it.           *)

\* the value and source arguments of NewLabel: "" and "1", "" and "k8s"
ValueArgs == { <<>>, Str1 }

InitNewLabel ==
    /\ str \in StrInputs
    /\ orig = NoOrigin /\ lbl = ZeroLabel /\ sel = ZeroLabel /\ done = {}
    /\ ret = <<>>
    /\ IdleLabels /\ IdleJSON /\ IdleMain

\* ret.l = NewLabel(str, value, source)
NewLabelStep ==
    /\ op = "init"
    /\ \E value \in ValueArgs, source \in SourceArgs :
          ret' = [value |-> value, source |-> source, l |-> NewLabel(str, value, source)]
    /\ op' = "NewLabel"
    /\ UNCHANGED <<to, from, nilmap, panicked, arg, sorted>>
    /\ UNCHANGED parseVars /\ UNCHANGED jsonVars /\ UNCHANGED mainVars

NextNewLabel == NewLabelStep

SpecNewLabel == InitNewLabel /\ [][NextNewLabel]_vars

----------------------------------------------------------------------------
(* The canonical-form machine: SortedList and Equals applied to two maps.  *)

\* "ab"
StrAB == StrA \o StrB

CanonKeys == { StrA, StrAB, StrB }
CanonValues == { <<>>, Str1 }
CanonSources == { LabelSourceK8s, LabelSourceAny }

\* the maps of at most MaxCanon entries whose labels are stored under their key
CanonSets ==
    UNION { { m \in [D -> [Key : CanonKeys, Value : CanonValues, Source : CanonSources]] :
                \A k \in D : m[k].Key = k }
            : D \in {E \in SUBSET CanonKeys : Cardinality(E) <= MaxCanon} }

InitCanon ==
    /\ to \in CanonSets
    /\ from \in CanonSets
    /\ nilmap = {}
    /\ panicked = FALSE
    /\ op = "init" /\ arg = <<>>
    /\ IdleCanon /\ IdleParse /\ IdleJSON /\ IdleMain

\* sorted[r] = Reg(r).SortedList()
SortedListStep ==
    /\ \E r \in Regs :
          \E order \in RangeOrders(Reg(r)) :
             sorted' = [sorted EXCEPT ![r] =
                           [ok |-> TRUE, bytes |-> SortedList(Reg(r), order)]]
    /\ UNCHANGED <<to, from, nilmap, panicked, op, arg, ret>>
    /\ UNCHANGED parseVars /\ UNCHANGED jsonVars /\ UNCHANGED mainVars

\* ret = Reg(a).Equals(Reg(b))
EqualsStep ==
    /\ \E a \in Regs, b \in Regs :
          ret' = [l |-> a, other |-> b, equal |-> LabelsEquals(Reg(a), Reg(b))]
    /\ op' = "Equals"
    /\ UNCHANGED <<to, from, nilmap, panicked, arg, sorted>>
    /\ UNCHANGED parseVars /\ UNCHANGED jsonVars /\ UNCHANGED mainVars

NextCanon ==
    \/ SortedListStep
    \/ EqualsStep

SpecCanon == InitCanon /\ [][NextCanon]_vars

----------------------------------------------------------------------------
(* The round-trip machine: a map, its SortedList, and the map that         *)
(* NewLabelsFromSortedList rebuilds from it.                               *)

RoundTripKeys == { StrA, StrB }
RoundTripValues == { <<>>, Str1, <<ChSemi>> }
RoundTripSources == { <<>>, LabelSourceK8s }

\* the maps of at most MaxCanon entries, whatever key their labels carry
RoundTripSets ==
    UNION { [D -> [Key : RoundTripKeys, Value : RoundTripValues, Source : RoundTripSources]]
            : D \in {E \in SUBSET RoundTripKeys : Cardinality(E) <= MaxCanon} }

InitRoundTrip ==
    /\ to \in RoundTripSets
    /\ from = EmptyLabels
    /\ nilmap = {}
    /\ panicked = FALSE
    /\ op = "init" /\ arg = <<>>
    /\ IdleCanon /\ IdleParse /\ IdleJSON /\ IdleMain

\* from = NewLabelsFromSortedList(string(to.SortedList()))
FromSortedListStep ==
    /\ arg = <<>>
    /\ sorted["to"].ok
    /\ Store("from", NewLabelsFromSortedList(sorted["to"].bytes), FALSE)
    /\ arg' = [list |-> sorted["to"].bytes]
    /\ op' = "NewLabelsFromSortedList"
    /\ UNCHANGED <<panicked, ret>>
    /\ sorted' = [sorted EXCEPT !["from"] = NoSlot]
    /\ UNCHANGED parseVars /\ UNCHANGED jsonVars /\ UNCHANGED mainVars

NextRoundTrip ==
    \/ SortedListStep
    \/ FromSortedListStep
    \/ EqualsStep

SpecRoundTrip == InitRoundTrip /\ [][NextRoundTrip]_vars

----------------------------------------------------------------------------
(* Label.UnmarshalJSON.                                                    *)

\* A JSON document is held as what encoding/json reads in it: nothing at all
\* (no bytes), malformed text, null, a number, a string or an object; of an
\* object, what the members "source", "key" and "value" hold.
Member(t, s) == [t |-> t, s |-> s]
Absent == Member("absent", <<>>)

Doc(kind, s, source, key, value) ==
    [kind |-> kind, s |-> s, source |-> source, key |-> key, value |-> value]

\* what a string field of the struct holds after the member m was decoded into
\* it: a string sets it, null and an absent member leave the zero value
FieldValue(m) == IF m.t = "string" THEN m.s ELSE <<>>

\* decoder.Decode(&aux) into struct{Source, Key, Value string}
DecodeStruct(d) ==
    IF d.kind = "null"
    THEN [failed |-> FALSE, aux |-> ZeroLabel]
    ELSE IF d.kind = "object"
    THEN [failed |-> \E m \in {d.source, d.key, d.value} : m.t = "number",
          aux |-> Label(FieldValue(d.key), FieldValue(d.value), FieldValue(d.source))]
    ELSE [failed |-> TRUE, aux |-> ZeroLabel]

\* decoder.Decode(&aux) into a string
DecodeString(d) ==
    IF d.kind = "null" THEN [failed |-> FALSE, s |-> <<>>]
    ELSE IF d.kind = "string" THEN [failed |-> FALSE, s |-> d.s]
    ELSE [failed |-> TRUE, s |-> <<>>]

Receiver(isNil, l) == [isNil |-> isNil, l |-> l]

UnmarshalJSONNoKeyCheck(r, d) ==
    IF r.isNil THEN [err |-> "nil pointer", recv |-> r]
    ELSE IF d.kind = "empty" THEN [err |-> "empty data", recv |-> r]
    ELSE LET o == DecodeStruct(d)
         IN  IF o.failed
             THEN LET st == DecodeString(d)
                  IN  IF st.failed THEN [err |-> "not a string", recv |-> r]
                      ELSE IF st.s = <<>> THEN [err |-> "empty string", recv |-> r]
                      ELSE [err |-> "", recv |-> Receiver(FALSE, ParseLabel(st.s))]
             ELSE [err |-> "", recv |-> Receiver(FALSE, o.aux)]

\* l.UnmarshalJSON(data): the error ("" for nil) and the receiver afterwards
UnmarshalJSON(r, d) ==
    IF r.isNil THEN [err |-> "nil pointer", recv |-> r]
    ELSE IF d.kind = "empty" THEN [err |-> "empty data", recv |-> r]
    ELSE LET o == DecodeStruct(d)
         IN  IF o.failed
             THEN LET st == DecodeString(d)
                  IN  IF st.failed THEN [err |-> "not a string", recv |-> r]
                      ELSE IF st.s = <<>> THEN [err |-> "empty string", recv |-> r]
                      ELSE [err |-> "", recv |-> Receiver(FALSE, ParseLabel(st.s))]
             ELSE IF o.aux.Key = <<>>
                  THEN [err |-> "no key", recv |-> r]
                  ELSE [err |-> "", recv |-> Receiver(FALSE, o.aux)]

\* the strings of the JSON documents: "", "a", "k8s:a=1", "$host", "=1"
JSONStrs ==
    { <<>>, StrA,
      LabelSourceK8s \o <<ChColon>> \o StrA \o <<ChEq>> \o Str1,
      <<ChDollar>> \o StrHost,
      <<ChEq>> \o Str1 }

SourceMembers == { Absent, Member("null", <<>>), Member("number", <<>>),
                   Member("string", LabelSourceK8s) }
KeyMembers == { Absent, Member("null", <<>>), Member("number", <<>>),
                Member("string", <<>>), Member("string", StrA) }
ValueMembers == { Absent, Member("number", <<>>), Member("string", Str1) }

JSONInputs ==
    { Doc(k, <<>>, Absent, Absent, Absent) : k \in {"empty", "malformed", "null", "number"} }
    \cup { Doc("string", x, Absent, Absent, Absent) : x \in JSONStrs }
    \cup { Doc("object", <<>>, src, key, value) :
              src \in SourceMembers, key \in KeyMembers, value \in ValueMembers }

\* the receivers: a nil *Label, a zero Label, a Label already set
ReceiverInputs ==
    { Receiver(TRUE, ZeroLabel), Receiver(FALSE, ZeroLabel),
      Receiver(FALSE, Label(StrB, Str1, LabelSourceAny)) }

InitJSON ==
    /\ data \in JSONInputs
    /\ recv \in ReceiverInputs
    /\ err = ""
    /\ arg = <<>> /\ op = "init"
    /\ to = <<>> /\ from = <<>> /\ nilmap = {} /\ panicked = FALSE
    /\ IdleCanon /\ IdleParse /\ IdleMain

\* err = recv.UnmarshalJSON(data)
UnmarshalJSONStep ==
    /\ op = "init"
    /\ LET res == UnmarshalJSON(recv, data)
       IN  /\ err' = res.err
           /\ recv' = res.recv
    /\ arg' = recv
    /\ op' = "UnmarshalJSON"
    /\ UNCHANGED <<data, to, from, nilmap, panicked, ret, sorted>>
    /\ UNCHANGED parseVars /\ UNCHANGED mainVars

NextJSON == UnmarshalJSONStep

SpecJSON == InitJSON /\ [][NextJSON]_vars

----------------------------------------------------------------------------
(* The example client: main of client-example.go, one step per call the    *)
(* program makes.  The outcome of each call is chosen by the agent.        *)

\* the longest endpoint list the agent answers with
MaxEndpoints == 3

libraryVars == <<labelVars, ret, parseVars, jsonVars>>

StatusStateOk == "Ok"

\* the states a models.Status carries
StatusStates == { StatusStateOk, "Warning", "Failure", "Disabled" }

CiliumInputs == { NoCilium } \cup { [present |-> TRUE, state |-> st] : st \in StatusStates }

\* an endpoint, by whether its Addressing pointer is set
EndpointKinds == { [Addressing |-> "set"], [Addressing |-> "nil"] }

EndpointInputs == UNION { [1..n -> EndpointKinds] : n \in 0..MaxEndpoints }

separator == "------"

header(title) == <<separator, title, separator>>

Call(name, ok) == [call |-> name, ok |-> ok]

\* statusResponse.Cilium != nil && statusResponse.Cilium.State != models.StatusStateOk,
\* aborting on a failure state only
NotOkFailureOnly(c) == c.present /\ c.state = "Failure"

\* statusResponse.Cilium != nil && statusResponse.Cilium.State != models.StatusStateOk
NotOk(c) == c.present /\ c.state # StatusStateOk

\* log.WithError(err).Fatal(msg): logs, then exits with code 1
Fatal(msg) ==
    /\ logged' = Append(logged, msg)
    /\ exitCode' = 1
    /\ pc' = "exited"

InitMain ==
    /\ pc = "NewDefaultClient"
    /\ calls = <<>> /\ stdout = <<>> /\ logged = <<>>
    /\ exitCode = 0 /\ cilium = NoCilium /\ endpoints = <<>>
    /\ ret = <<>>
    /\ IdleLabels /\ IdleParse /\ IdleJSON

NewDefaultClientStep ==
    /\ pc = "NewDefaultClient"
    /\ \E ok \in BOOLEAN :
          /\ calls' = Append(calls, Call("NewDefaultClient", ok))
          /\ IF ok THEN pc' = "ConfigGet" /\ UNCHANGED <<logged, exitCode>>
             ELSE Fatal("Cannot create client")
    /\ UNCHANGED <<stdout, cilium, endpoints>>
    /\ UNCHANGED libraryVars

ConfigGetStep ==
    /\ pc = "ConfigGet"
    /\ \E ok \in BOOLEAN :
          /\ calls' = Append(calls, Call("ConfigGet", ok))
          /\ IF ok THEN pc' = "MarshalIndent" /\ UNCHANGED <<logged, exitCode>>
             ELSE Fatal("Cannot get agent configuration")
    /\ UNCHANGED <<stdout, cilium, endpoints>>
    /\ UNCHANGED libraryVars

\* the configuration is printed only if json.MarshalIndent returns no error
MarshalIndentStep ==
    /\ pc = "MarshalIndent"
    /\ \E ok \in BOOLEAN :
          stdout' = IF ok THEN stdout \o header("Agent configuration:") \o <<"configuration">>
                    ELSE stdout
    /\ pc' = "GetHealthz"
    /\ UNCHANGED <<calls, logged, exitCode, cilium, endpoints>>
    /\ UNCHANGED libraryVars

GetHealthzStep ==
    /\ pc = "GetHealthz"
    /\ \/ /\ calls' = Append(calls, Call("GetHealthz", FALSE))
          /\ Fatal("Cannot get agent status")
          /\ UNCHANGED cilium
       \/ /\ calls' = Append(calls, Call("GetHealthz", TRUE))
          /\ \E c \in CiliumInputs : cilium' = c
          /\ pc' = "CheckStatus"
          /\ UNCHANGED <<logged, exitCode>>
    /\ UNCHANGED <<stdout, endpoints>>
    /\ UNCHANGED libraryVars

CheckStatusStep ==
    /\ pc = "CheckStatus"
    /\ IF NotOk(cilium)
       THEN /\ logged' = Append(logged, "Cilium agent status not OK, aborting")
            /\ exitCode' = 1
            /\ pc' = "exited"
       ELSE /\ pc' = "EndpointList"
            /\ UNCHANGED <<logged, exitCode>>
    /\ UNCHANGED <<calls, stdout, cilium, endpoints>>
    /\ UNCHANGED libraryVars

EndpointListStep ==
    /\ pc = "EndpointList"
    /\ \/ /\ calls' = Append(calls, Call("EndpointList", FALSE))
          /\ Fatal("Cannot list endpoints")
          /\ UNCHANGED <<stdout, endpoints>>
       \/ /\ calls' = Append(calls, Call("EndpointList", TRUE))
          /\ \E eps \in EndpointInputs : endpoints' = eps
          /\ stdout' = stdout \o header("List of running endpoints:")
          /\ pc' = "range"
          /\ UNCHANGED <<logged, exitCode>>
    /\ UNCHANGED cilium
    /\ UNCHANGED libraryVars

\* one iteration of the loop over the endpoints; ep.Addressing.IPV4 on a nil
\* Addressing is a nil pointer dereference, which ends the process with code 2
PrintEndpointStep ==
    /\ pc = "range"
    /\ endpoints # <<>>
    /\ IF Head(endpoints).Addressing = "nil"
       THEN /\ logged' = Append(logged, "panic: nil pointer dereference")
            /\ exitCode' = 2
            /\ pc' = "exited"
            /\ UNCHANGED <<stdout, endpoints>>
       ELSE /\ stdout' = Append(stdout, "endpoint")
            /\ endpoints' = Tail(endpoints)
            /\ UNCHANGED <<pc, logged, exitCode>>
    /\ UNCHANGED <<calls, cilium>>
    /\ UNCHANGED libraryVars

\* main returns
ReturnStep ==
    /\ pc = "range"
    /\ endpoints = <<>>
    /\ pc' = "exited"
    /\ exitCode' = 0
    /\ UNCHANGED <<calls, stdout, logged, cilium, endpoints>>
    /\ UNCHANGED libraryVars

NextMain ==
    \/ NewDefaultClientStep
    \/ ConfigGetStep
    \/ MarshalIndentStep
    \/ GetHealthzStep
    \/ CheckStatusStep
    \/ EndpointListStep
    \/ PrintEndpointStep
    \/ ReturnStep

SpecMain == InitMain /\ [][NextMain]_vars

----------------------------------------------------------------------------
(* Properties of the parsers, checked under SpecParse.                     *)

BothParsed == {"ParseLabel", "ParseSelectLabel"} \subseteq done

\* the text carries no source: no ':' delimiter, no leading '$', no
\* "reserved." prefix
NoSourceText(s) ==
    /\ IndexByte(s, ChColon) < 0
    /\ ~HasPrefix(s, <<ChDollar>>)
    /\ ~HasPrefix(s, LabelSourceReservedKeyPrefix)

ExamplesParse ==
    /\ str = <<ChDollar>> \o StrHost
          => /\ lbl = Label(StrHost, <<>>, LabelSourceReserved)
             /\ sel = Label(StrHost, <<>>, LabelSourceReserved)
    /\ str = LabelSourceK8s \o <<ChColon>> \o StrRole \o <<ChEq>> \o StrBackend
          => /\ lbl = Label(StrRole, StrBackend, LabelSourceK8s)
             /\ sel = Label(StrRole, StrBackend, LabelSourceK8s)

\* C4 as stated: ParseLabel and ParseSelectLabel agree on key and value, and
\* on the source too unless the text carries no source (NoSourceText), in
\* which case they return "unspec" and "any"; "$host" and "k8s:role=backend"
\* parse as the examples say.
C4_SourcesDifferOnlyWithoutSource ==
    BothParsed =>
        /\ lbl.Key = sel.Key
        /\ lbl.Value = sel.Value
        /\ IF NoSourceText(str)
           THEN lbl.Source = LabelSourceUnspec /\ sel.Source = LabelSourceAny
           ELSE lbl.Source = sel.Source
        /\ ExamplesParse

\* the texts ParseLabel gives the source "unspec": no source, an empty
\* source before ':', or the literal source "unspec" before ':'
UnspecText(s) ==
    \/ NoSourceText(s)
    \/ HasPrefix(s, <<ChColon>>)
    \/ HasPrefix(s, LabelSourceUnspec \o <<ChColon>>)

\* C4 amended: ParseLabel and ParseSelectLabel agree on key and value, and on
\* the source too unless the text carries no source, an empty source before
\* ':' or the literal source "unspec"; in these cases ParseLabel returns
\* "unspec" and ParseSelectLabel "any". The two examples parse as stated.
C4_SourcesDifferExactlyOnUnspec ==
    BothParsed =>
        /\ lbl.Key = sel.Key
        /\ lbl.Value = sel.Value
        /\ IF UnspecText(str)
           THEN lbl.Source = LabelSourceUnspec /\ sel.Source = LabelSourceAny
           ELSE lbl.Source = sel.Source
        /\ ExamplesParse

\* "role=backend" parsed by both parsers: "unspec" against "any"
C4_Witness ==
    /\ BothParsed
    /\ str = StrRole \o <<ChEq>> \o StrBackend
    /\ lbl = Label(StrRole, StrBackend, LabelSourceUnspec)
    /\ sel = Label(StrRole, StrBackend, LabelSourceAny)

ReservedChars == {ChColon, ChEq, ChSemi, ChDollar}

NoReservedChars(l) ==
    (Range(l.Source) \cup Range(l.Key) \cup Range(l.Value)) \cap ReservedChars = {}

\* C5 as stated: for every triple with a non-empty key and no reserved
\* character in its fields, ParseLabel of the text source:key=value returns
\* the triple.
C5_RoundTrip ==
    (orig.gen /\ "ParseLabel" \in done /\ IsValid(orig.l) /\ NoReservedChars(orig.l))
        => lbl = orig.l

\* C5 amended: for every triple with a non-empty key, a non-empty source and
\* no reserved character in its fields, ParseLabel of the text
\* source:key=value returns the triple.
C5_RoundTripWithSource ==
    (/\ orig.gen /\ "ParseLabel" \in done
     /\ IsValid(orig.l) /\ orig.l.Source # <<>> /\ NoReservedChars(orig.l))
        => lbl = orig.l

\* "k8s:role=1" generated from (k8s, role, 1) and parsed back
C5_Witness ==
    /\ orig.gen /\ "ParseLabel" \in done
    /\ orig.l = Label(StrRole, Str1, LabelSourceK8s)
    /\ str = LabelSourceK8s \o <<ChColon>> \o StrRole \o <<ChEq>> \o Str1
    /\ lbl = orig.l

\* C10 as stated: l.Equals(b) is true if source, key and value of l and b are
\* all equal, and false otherwise.
C10_EqualsIffAllFieldsEqual ==
    "Equals" \in done =>
        (ret.equal <=> (/\ ret.l.Source = ret.b.Source
                        /\ ret.l.Key = ret.b.Key
                        /\ ret.l.Value = ret.b.Value))

----------------------------------------------------------------------------
(* Properties of the label-set machine, checked under Spec.                *)

MergeDone == op = "MergeLabels" /\ ~panicked

\* C3: after to.MergeLabels(from) every key of from holds from's entry in to,
\* every entry of to whose key is not in from is unchanged, to has no key
\* that was in neither map, and from is unchanged.
C3_MergeOverwritesAndPreserves ==
    MergeDone =>
        LET after == Reg(arg.recv)
        IN  /\ \A k \in DOMAIN arg.other :
                  k \in DOMAIN after /\ after[k] = arg.other[k]
            /\ \A k \in (DOMAIN arg.l) \ (DOMAIN arg.other) :
                  k \in DOMAIN after /\ after[k] = arg.l[k]
            /\ DOMAIN after \subseteq (DOMAIN arg.l) \cup (DOMAIN arg.other)
            /\ Reg(arg.from) = arg.other

\* a merge that overwrote an entry that differed and kept an entry of its own
C3_Witness ==
    /\ MergeDone
    /\ arg.recv # arg.from
    /\ \E k \in (DOMAIN arg.l) \cap (DOMAIN arg.other) :
          arg.l[k] # arg.other[k] /\ Reg(arg.recv)[k] = arg.other[k]
    /\ \E k \in (DOMAIN arg.l) \ (DOMAIN arg.other) : Reg(arg.recv)[k] = arg.l[k]

\* C6 as stated: no label set the operations produce holds an entry whose
\* label key is the empty string.
C6_NoEmptyKeyInserted ==
    \A r \in Regs : \A k \in DOMAIN Reg(r) : Reg(r)[k].Key # <<>>

\* C7: in every label set the operations produce, each entry's label key
\* equals the map key it is stored under.
C7_KeyFieldEqualsMapKey ==
    \A r \in Regs : \A k \in DOMAIN Reg(r) : Reg(r)[k].Key = k

\* a prefixed set: "ab" holds the label (ab, 1, k8s)
C7_Witness ==
    /\ op = "AppendPrefixInKey"
    /\ \E r \in Regs :
          /\ StrAB \in DOMAIN Reg(r)
          /\ Reg(r)[StrAB] = Label(StrAB, Str1, LabelSourceK8s)

----------------------------------------------------------------------------
(* Properties of the canonical form, checked under SpecCanon.              *)

Ascending(ks) == \A i \in 1..(Len(ks) - 1) : StrLess(ks[i], ks[i + 1])

\* the records source:key=value; of the entries of m under the keys ks
RECURSIVE JoinRecords(_, _)
JoinRecords(m, ks) ==
    IF ks = <<>> THEN <<>>
    ELSE m[Head(ks)].Source \o <<ChColon>> \o m[Head(ks)].Key \o <<ChEq>>
            \o m[Head(ks)].Value \o <<ChSemi>> \o JoinRecords(m, Tail(ks))

IsPrefix(s, t) == Len(s) <= Len(t) /\ SubSeq(t, 1, Len(s)) = s

\* C1: SortedList(L) is the concatenation, in ascending byte order of L's map
\* keys, of one record source:key=value; per entry, whatever order the keys
\* were collected in; so two sets holding the same triples give the same bytes.
C1_SortedListCanonical ==
    /\ \A r \in Regs :
          sorted[r].ok =>
             \E ks \in RangeOrders(Reg(r)) :
                Ascending(ks) /\ sorted[r].bytes = JoinRecords(Reg(r), ks)
    /\ (sorted["to"].ok /\ sorted["from"].ok /\ to = from)
          => sorted["to"].bytes = sorted["from"].bytes

\* {ab: (ab, "", k8s), b: (b, 1, k8s)} in both maps gives "k8s:ab=;k8s:b=1;"
C1_Witness ==
    /\ sorted["to"].ok /\ sorted["from"].ok
    /\ to = from
    /\ DOMAIN to = {StrAB, StrB}
    /\ to[StrAB].Value = <<>>
    /\ sorted["to"].bytes =
          LabelSourceK8s \o <<ChColon>> \o StrAB \o <<ChEq, ChSemi>>
             \o LabelSourceK8s \o <<ChColon>> \o StrB \o <<ChEq>> \o Str1 \o <<ChSemi>>
    /\ sorted["from"].bytes = sorted["to"].bytes

\* A's keys are among B's and the shared entries are identical
SubsetWithSameEntries(A, B) ==
    /\ DOMAIN A \subseteq DOMAIN B
    /\ \A k \in DOMAIN A : A[k] = B[k]

\* C2 as stated: SortedList(A) is a prefix of SortedList(B) whenever A's key
\* set is a subset of B's and the shared entries are identical.
C2_SubsetIsPrefix ==
    (sorted["to"].ok /\ sorted["from"].ok /\ SubsetWithSameEntries(to, from))
        => IsPrefix(sorted["to"].bytes, sorted["from"].bytes)

\* every key of B that A lacks sorts after every key of A
ExtraKeysSortLast(A, B) ==
    \A k \in (DOMAIN B) \ (DOMAIN A) : \A j \in DOMAIN A : StrLess(j, k)

\* C2 amended: SortedList(A) is a prefix of SortedList(B) whenever A's key
\* set is a subset of B's, the shared entries are identical and every key of
\* B that A lacks is greater, in byte order, than every key of A.
C2_LeadingSubsetIsPrefix ==
    (/\ sorted["to"].ok /\ sorted["from"].ok
     /\ SubsetWithSameEntries(to, from) /\ ExtraKeysSortLast(to, from))
        => IsPrefix(sorted["to"].bytes, sorted["from"].bytes)

\* A = {a}, B = {a, b}: "k8s:a=1;" is a prefix of "k8s:a=1;k8s:b=1;"
C2_Witness ==
    /\ sorted["to"].ok /\ sorted["from"].ok
    /\ DOMAIN to = {StrA} /\ DOMAIN from = {StrA, StrB}
    /\ SubsetWithSameEntries(to, from) /\ ExtraKeysSortLast(to, from)
    /\ sorted["to"].bytes # <<>>
    /\ Len(sorted["to"].bytes) < Len(sorted["from"].bytes)
    /\ IsPrefix(sorted["to"].bytes, sorted["from"].bytes)

\* C9: A.Equals(B) is true iff A and B have as many entries and B holds, under
\* every map key of A, an entry with the same key, value and source; and
\* Equals is symmetric.
C9_EqualsIffSameEntries ==
    op = "Equals" =>
        LET A == Reg(ret.l)
            B == Reg(ret.other)
        IN  /\ ret.equal <=>
                  /\ Cardinality(DOMAIN A) = Cardinality(DOMAIN B)
                  /\ \A k \in DOMAIN A :
                        /\ k \in DOMAIN B
                        /\ B[k].Key = A[k].Key
                        /\ B[k].Value = A[k].Value
                        /\ B[k].Source = A[k].Source
            /\ ret.equal = LabelsEquals(B, A)

\* two maps of two entries each, held in different variables, found equal
C9_Witness ==
    /\ op = "Equals"
    /\ ret.l = "to" /\ ret.other = "from"
    /\ Cardinality(DOMAIN to) = 2
    /\ ret.equal

----------------------------------------------------------------------------
(* Properties of Label.UnmarshalJSON, checked under SpecJSON.              *)

\* the cases in which the claim has the decoding fail
DecodingFails(d) ==
    \/ d.kind = "empty"
    \/ /\ DecodeStruct(d).failed
       /\ DecodeString(d).failed \/ DecodeString(d).s = <<>>
    \/ /\ ~DecodeStruct(d).failed
       /\ DecodeStruct(d).aux.Key = <<>>

\* the label the claim has a successful decoding set: the object's fields if
\* the object form decodes, ParseLabel of the decoded string only otherwise
DecodedLabel(d) ==
    IF ~DecodeStruct(d).failed THEN DecodeStruct(d).aux
    ELSE ParseLabel(DecodeString(d).s)

\* C8 as stated: UnmarshalJSON returns an error exactly when the input is
\* empty, when neither form decodes (or the decoded string is empty), or when
\* the object form decodes with an empty key; otherwise it succeeds and sets
\* the label from the object form, or from the string form if the object form
\* failed.
C8_ErrorExactlyWhenDecodingFails ==
    op = "UnmarshalJSON" =>
        /\ err # "" <=> DecodingFails(data)
        /\ err = "" => recv.l = DecodedLabel(data)

\* C8 amended: called on a non-nil receiver, UnmarshalJSON returns an error
\* exactly when the input is empty, when neither form decodes (or the decoded
\* string is empty), or when the object form decodes with an empty key;
\* otherwise it succeeds and sets the label from the object form, or from the
\* string form if the object form failed. On a nil receiver it returns an
\* error whatever the input.
C8_ErrorExactlyWhenDecodingFailsOrNil ==
    op = "UnmarshalJSON" =>
        /\ err # "" <=> (arg.isNil \/ DecodingFails(data))
        /\ err = "" => recv.l = DecodedLabel(data)
        /\ err # "" => recv = arg

\* the string "k8s:a=1" decoded over a label already set, by the fallback
C8_Witness ==
    /\ op = "UnmarshalJSON"
    /\ data.kind = "string"
    /\ arg = Receiver(FALSE, Label(StrB, Str1, LabelSourceAny))
    /\ err = ""
    /\ recv.l = Label(StrA, Str1, LabelSourceK8s)

----------------------------------------------------------------------------
(* Properties of NewLabel, checked under SpecNewLabel.                     *)

\* C11 as stated: with an empty source argument and a key text that carries
\* no source the result's source is "unspec"; if the key starts with '$' the
\* result's source is "reserved" whatever source was given; if the key
\* contains ':' the text before it is the source when the given source is
\* empty and is dropped otherwise, and the result's key is the text after ':'.
C11_NewLabelSourceRules ==
    op = "NewLabel" =>
        LET i == IndexByte(str, ChColon)
        IN  /\ (ret.source = <<>> /\ NoSourceText(str))
                  => ret.l.Source = LabelSourceUnspec
            /\ HasPrefix(str, <<ChDollar>>)
                  => ret.l.Source = LabelSourceReserved
            /\ i >= 0
                  => /\ ret.l.Source =
                           IF ret.source = <<>> THEN SliceTo(str, i) ELSE ret.source
                     /\ ret.l.Key = SliceFrom(str, i + 1)

----------------------------------------------------------------------------
(* Validity of a decoded label, checked under SpecJSON.                    *)

\* C13 as stated: whenever UnmarshalJSON returns without error the resulting
\* label is valid (its key is non-empty), for the object form and for the
\* string fallback form alike.
C13_DecodedLabelIsValid ==
    (op = "UnmarshalJSON" /\ err = "") => IsValid(recv.l)

----------------------------------------------------------------------------
(* SortedList and NewLabelsFromSortedList, checked under SpecRoundTrip.    *)

\* the rebuilt map has been compared with the original: from.Equals(to)
RoundTripCompared ==
    /\ op = "Equals"
    /\ arg # <<>>
    /\ ret.l = "from" /\ ret.other = "to"

\* every entry is stored under its own, non-empty key and no field holds one
\* of ':', '=', ';', '$'
PlainEntries(L) ==
    \A k \in DOMAIN L :
        /\ IsValid(L[k])
        /\ L[k].Key = k
        /\ NoReservedChars(L[k])

\* C14 as stated: for every label set whose entries are stored under their
\* own non-empty key and whose fields hold none of ':', '=', ';', '$',
\* NewLabelsFromSortedList(string(L.SortedList())) Equals L.
C14_FromSortedListInvertsSortedList ==
    (RoundTripCompared /\ PlainEntries(to)) => ret.equal

\* C14 amended: the same, for the label sets whose entries also have a
\* non-empty source.
C14_FromSortedListInvertsWithSource ==
    (RoundTripCompared /\ PlainEntries(to) /\ \A k \in DOMAIN to : to[k].Source # <<>>)
        => ret.equal /\ from = to

\* a set of two entries, one with an empty value, is rebuilt from its list
C14_Witness ==
    /\ RoundTripCompared
    /\ PlainEntries(to)
    /\ DOMAIN to = {StrA, StrB}
    /\ to[StrA].Source = LabelSourceK8s /\ to[StrB].Source = LabelSourceK8s
    /\ to[StrA].Value = <<>> /\ to[StrB].Value = Str1
    /\ arg.list = LabelSourceK8s \o <<ChColon>> \o StrA \o <<ChEq, ChSemi>>
                     \o LabelSourceK8s \o <<ChColon>> \o StrB \o <<ChEq>> \o Str1 \o <<ChSemi>>
    /\ ret.equal

----------------------------------------------------------------------------
(* Properties of the example client's main, checked under SpecMain.        *)

\* the four calls of main, in the order of the program text
MainOrder == <<"NewDefaultClient", "ConfigGet", "GetHealthz", "EndpointList">>

Requested(name) == \E i \in 1..Len(calls) : calls[i].call = name

\* the header of the endpoint list or one of its lines is on stdout
ListPrinted ==
    \E i \in 1..Len(stdout) : stdout[i] \in {"List of running endpoints:", "endpoint"}

StatusNotOk == cilium.present /\ cilium.state # "Ok"

MainInOrder ==
    pc # "idle" =>
        \* the calls are made in the fixed order
        /\ Len(calls) <= Len(MainOrder)
        /\ \A i \in 1..Len(calls) : calls[i].call = MainOrder[i]
        \* a failed call is the last one, and the process has terminated
        /\ \A i \in 1..Len(calls) :
              ~calls[i].ok => (i = Len(calls) /\ pc = "exited" /\ exitCode # 0)
        \* a status that is not OK: exit code 1, no endpoint list
        /\ StatusNotOk =>
              /\ ~Requested("EndpointList")
              /\ ~ListPrinted
              /\ pc = "CheckStatus" \/ (pc = "exited" /\ exitCode = 1)
        \* the list is printed only after four successes and an OK or absent status
        /\ ListPrinted =>
              /\ Len(calls) = Len(MainOrder)
              /\ \A i \in 1..Len(calls) : calls[i].ok
              /\ ~StatusNotOk

\* C12: main makes its calls in the order create client, get configuration,
\* get health, list endpoints; a failed call is the last thing the process
\* does; a Cilium status that is not OK ends the process with exit code 1
\* before the endpoint list is requested or printed; the endpoint list is
\* printed only when all four calls succeeded and the status was OK or
\* absent; and a terminated process takes no further step.
C12_MainStepsInOrder ==
    /\ []MainInOrder
    /\ [][pc # "exited"]_vars

\* a complete run: configuration and two endpoints printed, status OK
C12_Witness ==
    /\ pc = "exited" /\ exitCode = 0
    /\ Len(calls) = 4
    /\ cilium = [present |-> TRUE, state |-> "Ok"]
    /\ stdout = header("Agent configuration:") \o <<"configuration">>
                   \o header("List of running endpoints:") \o <<"endpoint", "endpoint">>

\* a run aborted on a status that is not OK
C12_WitnessAbort ==
    /\ pc = "exited" /\ exitCode = 1
    /\ Len(calls) = 3
    /\ cilium = [present |-> TRUE, state |-> "Warning"]
    /\ logged = <<"Cilium agent status not OK, aborting">>

====
